---- MODULE Spec2Model ----
(***************************************************************************)
(* Model of the openfairdb entry search index (TantivyEntryIndex and its   *)
(* SearchEngine lock wrapper), the rating aggregation (Rated::avg_rating), *)
(* the distance sort (sort_by_distance_to) and the ENTRY_RATINGS cache of  *)
(* the web layer.                                                          *)
(*                                                                         *)
(* Numbers are rationals <<n, d>> with d > 0 in lowest terms.  The codec   *)
(* computes in f64, modelled as the rationals with a mantissa of MBits     *)
(* bits (no subnormals, no overflow); u64 is modelled with UBits bits.     *)
(***************************************************************************)
EXTENDS Integers, Sequences, FiniteSets, TLC

VARIABLES
    writer,     \* TantivyEntryIndex.writer: operations buffered since the last commit
    segments,   \* TantivyEntryIndex.index: the committed documents
    searcher,   \* the documents the loaded searcher (index.searcher()) sees
    pending,    \* history: mutating calls issued since the searcher was last loaded
    applied,    \* history: the calls made visible by the flush that has just returned Ok
    before,     \* history: what the searcher saw before the flush that has just returned Ok
    ret,        \* the last call that returned, with its result
    mutex,      \* SearchEngine.0: the thread holding the lock, or NoThread
    poisoned,   \* SearchEngine.0: the poison flag of the mutex
    pc,         \* per thread: "idle", "lock" (blocked in lock()), "inner" (holds the guard)
    req,        \* per thread: the SearchEngine call in progress
    guard,      \* per thread: what lock() returned to the call in progress
    rated,      \* the id of the entry avg_rating was last called on ("" before any call)
    passed,     \* the slice of ratings passed to avg_rating
    result,     \* what avg_rating returned (<<>> before any call)
    db_ratings, \* the ratings in the database, in the order all_ratings() returns them
    entry_ratings, \* ENTRY_RATINGS: entry id -> cached average (<<>> when absent)
    started,    \* rocket_instance has run calculate_all_ratings
    wpc,        \* per request thread: position in post_rating
    loc,        \* per request thread: e_id and the ratings read by calculate_rating_for_entry
    codec,      \* the codec call in progress: its arguments, stage and results
    asked,      \* history: the arguments of the query that has just returned
    slice,      \* the [Entry] slice handed to sort_by_distance_to, sorted in place
    center,     \* the reference point handed to sort_by_distance_to
    unsorted,   \* history: the slice as it was handed over (<<>> before the call)
    db_entries, \* Db: uid -> the stored entry (NoEntry when there is none)
    db_tags,    \* Db: the stored tags, in the order they were created
    db_initial, \* history: db_entries when the update requests began
    upd,        \* per request thread: position in the update use case, its arguments and locals
    ratings_lock, \* the thread holding the ENTRY_RATINGS mutex, or NoThread
    pool,       \* DbPool: the number of idle connections
    hpc         \* per request thread: position in get_search or post_rating

ivars == <<writer, segments, searcher, pending, applied, before, ret>>
evars == <<mutex, poisoned, pc, req, guard>>
avars == <<rated, passed, result>>
wvars == <<db_ratings, entry_ratings, started, wpc, loc>>
pvars == <<codec, asked, slice, center, unsorted>>
uvars == <<db_entries, db_tags, db_initial, upd>>
hvars == <<ratings_lock, pool, hpc>>
vars == <<writer, segments, searcher, pending, applied, before, ret, mutex, poisoned, pc, req, guard,
          rated, passed, result, db_ratings, entry_ratings, started, wpc, loc,
          codec, asked, slice, center, unsorted, db_entries, db_tags, db_initial, upd,
          ratings_lock, pool, hpc>>

(***************************************************************************)
(* Bounds                                                                  *)
(***************************************************************************)
MaxCalls == 3      \* mutating calls buffered between two successful flushes
UBits == 8         \* width of the modelled u64
MBits == 5         \* width of the modelled f64 mantissa (narrower than u64, as 53 < 64)
MaxLimit == 2      \* largest query limit
MaxRatings == 4    \* longest slice of ratings passed to avg_rating
MaxStored == 2     \* ratings stored in the database
MaxDocs == 3       \* documents in the committed index a query is run on
MaxSlice == 3      \* entries in the slice handed to sort_by_distance_to
MaxWaiting == 1    \* mutating calls between two flushes when the threads are scheduled fairly
MaxVersion == 3    \* largest entry version an update request submits
PoolSize == 2      \* connections in the DbPool

Ids == {"a", "b"}
WebEntries == {"a", "b"}
EngineIds == {"a"}
Threads == {"t1", "t2"}
Handlers == {"t1", "t2", "t3"}
NoThread == "none"
NoReq == [op |-> "none"]
NoCodec == [stage |-> "none"]
NoQuery == [limit |-> 0]
NoPoint == [valid |-> FALSE, lat |-> <<0, 1>>, lng |-> <<0, 1>>]

(***************************************************************************)
(* Rationals                                                               *)
(***************************************************************************)
Abs(x) == IF x < 0 THEN -x ELSE x

RECURSIVE Gcd(_, _)
Gcd(x, y) == IF y = 0 THEN x ELSE Gcd(y, x % y)

Rat(n, d) ==
    LET s == IF d < 0 THEN -1 ELSE 1
        g == Gcd(Abs(n), Abs(d))
    IN  <<(s * n) \div g, (s * d) \div g>>

RAdd(x, y) == Rat(x[1] * y[2] + y[1] * x[2], x[2] * y[2])
RSub(x, y) == Rat(x[1] * y[2] - y[1] * x[2], x[2] * y[2])
RMul(x, y) == Rat(x[1] * y[1], x[2] * y[2])
RDiv(x, y) == Rat(x[1] * y[2], x[2] * y[1])
RLe(x, y) == x[1] * y[2] <= y[1] * x[2]
RLt(x, y) == x[1] * y[2] < y[1] * x[2]
RMax(x, y) == IF RLe(x, y) THEN y ELSE x
RMin(x, y) == IF RLe(x, y) THEN x ELSE y
\* f64::round: to the nearest integer, halves away from zero
RRound(x) ==
    IF x[1] >= 0 THEN (2 * x[1] + x[2]) \div (2 * x[2])
    ELSE -((2 * (-x[1]) + x[2]) \div (2 * x[2]))

(***************************************************************************)
(* Quantization codec                                                      *)
(***************************************************************************)
UMax == 2 ^ UBits - 1

Pow2(e) == IF e >= 0 THEN <<2 ^ e, 1>> ELSE <<1, 2 ^ (-e)>>

\* the nearest integer to x >= 0, ties to the even one
RoundHalfEven(x) ==
    LET f == x[1] \div x[2]
        r == 2 * (x[1] - f * x[2])
    IN  IF r > x[2] \/ (r = x[2] /\ f % 2 = 1) THEN f + 1 ELSE f

\* the binary exponent e that leaves x / 2^e a mantissa of MBits bits (x > 0)
RECURSIVE exponent(_, _)
exponent(x, e) ==
    IF RLt(x, <<2 ^ (MBits - 1), 1>>) THEN exponent(RMul(x, <<2, 1>>), e - 1)
    ELSE IF RLe(<<2 ^ MBits, 1>>, x) THEN exponent(RDiv(x, <<2, 1>>), e + 1)
    ELSE e

\* the f64 nearest to the real number x: every arithmetic operation of the
\* code rounds its exact result this way (IEEE 754 round-to-nearest-even)
f64(x) ==
    IF x[1] = 0 THEN x
    ELSE LET a == <<Abs(x[1]), x[2]>>
             e == exponent(a, 0)
             m == RoundHalfEven(RDiv(a, Pow2(e)))
             r == RMul(<<m, 1>>, Pow2(e))
         IN  IF x[1] < 0 THEN <<-r[1], r[2]>> ELSE r

\* std::f64::EPSILON: the distance from 1.0 to the next f64
EPSILON == Pow2(1 - MBits)
\* u64::max_value() as f64
u64_max_value_as_f64 == f64(<<UMax, 1>>)
RAbs(x) == <<Abs(x[1]), x[2]>>

\* `mapped.round() as u64` of a value beyond u64::max_value(): saturated when
\* built with Rust 1.45 or later, undefined behaviour when built with an
\* earlier compiler, where the conversion instructions of the target leave 0
\* or the sign bit
UndefinedCast == {0, 2 ^ (UBits - 1), UMax}
as_u64(x) == IF x >= 0 /\ x <= UMax THEN {x} ELSE UndefinedCast

AvgRatingMin == <<-3, 1>>
AvgRatingMax == <<3, 1>>
is_valid(avg) == RLe(AvgRatingMin, avg) /\ RLe(avg, AvgRatingMax)

\* the set of values the call can return (one value unless the cast overflows)
f64_to_u64(val, min, max) ==
    IF RLe(RAbs(f64(RSub(val, max))), EPSILON) THEN {UMax}
    ELSE IF RLe(RAbs(f64(RSub(val, min))), EPSILON) THEN {0}
    ELSE LET norm == f64(RDiv(f64(RSub(RMin(RMax(val, min), max), min)), f64(RSub(max, min))))
             mapped == f64(RMul(u64_max_value_as_f64, norm))
         IN  as_u64(RRound(mapped))

u64_to_f64(val, min, max) ==
    IF val = UMax THEN max
    ELSE IF val = 0 THEN min
    ELSE f64(RAdd(min, f64(RMul(f64(<<val, 1>>),
                                f64(RDiv(f64(RSub(max, min)), u64_max_value_as_f64))))))

AvgInputs == {<<1, 4>>, <<3, 1>>}          \* valid average ratings
BadAvgInputs == {<<10, 1>>}                \* violates AvgRatingValue::is_valid

\* the two conversions of AvgRatingValue, tabulated for the ratings the
\* callers pass and for every u64 a document can hold: each entry is computed
\* once, by the conversion itself
AvgRatingCodes == [avg \in AvgInputs \cup BadAvgInputs |-> f64_to_u64(avg, AvgRatingMin, AvgRatingMax)]
AvgRatingValues == [val \in 0..UMax |-> u64_to_f64(val, AvgRatingMin, AvgRatingMax)]
avg_rating_to_u64(avg) ==
    IF avg \in DOMAIN AvgRatingCodes THEN AvgRatingCodes[avg]
    ELSE f64_to_u64(avg, AvgRatingMin, AvgRatingMax)
u64_to_avg_rating(val) ==
    IF val \in DOMAIN AvgRatingValues THEN AvgRatingValues[val]
    ELSE u64_to_f64(val, AvgRatingMin, AvgRatingMax)

(***************************************************************************)
(* TantivyEntryIndex: the index writer, the committed segments and the     *)
(* searcher                                                                *)
(***************************************************************************)

\* str::to_lowercase on the strings of the model
to_lowercase(s) ==
    CASE s = "Shop" -> "shop"
      [] s = "Bio" -> "bio"
      [] s = "Cafe" -> "cafe"
      [] OTHER -> s

\* the tokenizers of the schema: ID_TOKENIZER ("raw") keeps the text as the
\* one token, TAG_TOKENIZER is RawTokenizer.filter(LowerCaser), TEXT_TOKENIZER
\* ("default") splits into words and lower-cases them; a text of the model is
\* the sequence of its words
ID_TOKENIZER(text) == {text}
TAG_TOKENIZER(text) == {to_lowercase(text)}
TEXT_TOKENIZER(text) == {to_lowercase(text[i]) : i \in 1..Len(text)}

\* the tokenizer build_schema gives each text field
id_options(text) == ID_TOKENIZER(text)
category_options(text) == ID_TOKENIZER(text)
tag_options(text) == TAG_TOKENIZER(text)
text_options(text) == TEXT_TOKENIZER(text)

\* LatCoord::from_deg(deg).to_raw(), LngCoord::from_deg(deg).to_raw(): the
\* coordinate in raw units, RawPerDeg of them to the degree
RawPerDeg == 2
to_raw(deg) == RRound(RMul(deg, <<RawPerDeg, 1>>))

\* an entry as the index reads it; a title is a sequence of words
Entry(id, lat, lng, title, categories, tags) ==
    [id |-> id, location |-> [lat |-> lat, lng |-> lng], title |-> title,
     description |-> <<>>, categories |-> categories, tags |-> tags]
Entries == {Entry(id, <<0, 1>>, <<0, 1>>, <<"Cafe">>, <<>>, <<>>) : id \in Ids}

\* the document add_or_update_entry builds: for every field the terms the
\* field's tokenizer indexes
Document(entry, rating) ==
    [id |-> entry.id,
     lat |-> to_raw(entry.location.lat),
     lng |-> to_raw(entry.location.lng),
     title |-> text_options(entry.title),
     description |-> text_options(entry.description),
     category |-> UNION {category_options(entry.categories[i]) : i \in 1..Len(entry.categories)},
     tag |-> UNION {tag_options(entry.tags[i]) : i \in 1..Len(entry.tags)},
     rating |-> rating]
NoDocument == Document(Entry("", <<0, 1>>, <<0, 1>>, <<>>, <<>>, <<>>), 0)

\* a delete_term on an id field whose tokenizer lower-cases the term
writer_delete_term_LowerCased(w, id) ==
    Append(w, [kind |-> "delete", id |-> to_lowercase(id), doc |-> NoDocument])
\* IndexWriter::delete_term on the id field (raw tokenizer: exact match)
writer_delete_term(w, id) == Append(w, [kind |-> "delete", id |-> id, doc |-> NoDocument])
\* IndexWriter::add_document
writer_add_document(w, doc) == Append(w, [kind |-> "add", id |-> doc.id, doc |-> doc])

\* a commit that applies every delete to the whole batch, later additions included
writer_commit_DeletesLast(segs, w) ==
    LET adds == SelectSeq(w, LAMBDA o : o.kind = "add")
        all == segs \o [i \in 1..Len(adds) |-> adds[i].doc]
    IN  SelectSeq(all, LAMBDA d : \A i \in 1..Len(w) : ~(w[i].kind = "delete" /\ w[i].id = d.id))

\* IndexWriter::commit: apply the buffered operations in the order they were
\* issued; a delete removes every earlier document with the term
RECURSIVE writer_commit(_, _)
writer_commit(segs, w) ==
    IF w = <<>> THEN segs
    ELSE LET o == Head(w)
             next == IF o.kind = "delete"
                     THEN SelectSeq(segs, LAMBDA d : d.id # o.id)
                     ELSE Append(segs, o.doc)
         IN  writer_commit(next, Tail(w))

\* the log of mutating calls
Upsert(id, avg_rating) == [call |-> "add_or_update_entry", id |-> id, avg |-> avg_rating]
Remove(id) == [call |-> "remove_entry_by_id", id |-> id, avg |-> <<0, 1>>]
NumCalls(log) == Len(log)

Returned(op, id, res, out) == [op |-> op, id |-> id, res |-> res, out |-> out]

\* the upsert without the delete_term of line 188
add_or_update_entry_NoDelete(entry, avg_rating) ==
    \E rating \in avg_rating_to_u64(avg_rating) :
    LET doc == Document(entry, rating)
    IN  /\ NumCalls(pending) < MaxCalls
        /\ writer' = writer_add_document(writer, doc)
        /\ pending' = Append(pending, Upsert(entry.id, avg_rating))
        /\ ret' = Returned("add_or_update_entry", entry.id, "Ok", <<>>)
        /\ applied' = <<>>
        /\ before' = <<>>
        /\ UNCHANGED <<segments, searcher>>

\* the upsert committing and reloading the searcher itself
add_or_update_entry_AutoCommit(entry, avg_rating) ==
    \E rating \in avg_rating_to_u64(avg_rating) :
    LET doc == Document(entry, rating)
        ops(w) == writer_add_document(writer_delete_term(w, entry.id), doc)
    IN  /\ NumCalls(pending) < MaxCalls
        /\ segments' = writer_commit(segments, ops(writer))
        /\ searcher' = segments'
        /\ writer' = <<>>
        /\ pending' = <<>>
        /\ ret' = Returned("add_or_update_entry", entry.id, "Ok", <<>>)
        /\ applied' = <<>>
        /\ before' = <<>>

add_or_update_entry(entry, avg_rating) ==
    \E rating \in avg_rating_to_u64(avg_rating) :
    LET id_term == entry.id
        doc == Document(entry, rating)
        ops(w) == writer_add_document(writer_delete_term(w, id_term), doc)
    IN  /\ NumCalls(pending) < MaxCalls
        /\ writer' = ops(writer)
        /\ pending' = Append(pending, Upsert(entry.id, avg_rating))
        /\ ret' = Returned("add_or_update_entry", entry.id, "Ok", <<>>)
        /\ applied' = <<>>
        /\ before' = <<>>
        /\ UNCHANGED <<segments, searcher>>

\* the removal that buffers nothing
remove_entry_by_id_NoDelete(id) ==
    /\ NumCalls(pending) < MaxCalls
    /\ pending' = Append(pending, Remove(id))
    /\ ret' = Returned("remove_entry_by_id", id, "Ok", <<>>)
    /\ applied' = <<>>
    /\ before' = <<>>
    /\ UNCHANGED <<writer, segments, searcher>>

\* the removal that fails for an identifier the index does not hold
remove_entry_by_id_Strict(id) ==
    /\ NumCalls(pending) < MaxCalls
    /\ LET known == \E i \in 1..Len(segments) : segments[i].id = id
       IN  /\ writer' = IF known THEN writer_delete_term(writer, id) ELSE writer
           /\ pending' = Append(pending, Remove(id))
           /\ ret' = Returned("remove_entry_by_id", id, IF known THEN "Ok" ELSE "Err", <<>>)
    /\ applied' = <<>>
    /\ before' = <<>>
    /\ UNCHANGED <<segments, searcher>>

remove_entry_by_id(id) ==
    /\ NumCalls(pending) < MaxCalls
    /\ writer' = writer_delete_term(writer, id)
    /\ pending' = Append(pending, Remove(id))
    /\ ret' = Returned("remove_entry_by_id", id, "Ok", <<>>)
    /\ applied' = <<>>
    /\ before' = <<>>
    /\ UNCHANGED <<segments, searcher>>

FlushOutcomes == {"Ok", "CommitErr", "LoadErr"}

flush(outcome) ==
    /\ outcome \in FlushOutcomes
    /\ IF outcome = "CommitErr"
       THEN \* self.writer.commit()? returned early
            /\ UNCHANGED <<writer, segments, searcher, pending>>
            /\ applied' = <<>>
            /\ before' = <<>>
            /\ ret' = Returned("flush", "", "Err", <<>>)
       ELSE /\ segments' = writer_commit(segments, writer)
            /\ writer' = <<>>
            /\ IF outcome = "LoadErr"
               THEN \* self.index.load_searchers()? returned early
                    /\ UNCHANGED <<searcher, pending>>
                    /\ applied' = <<>>
                    /\ before' = <<>>
                    /\ ret' = Returned("flush", "", "Err", <<>>)
               ELSE /\ searcher' = segments'
                    /\ pending' = <<>>
                    /\ applied' = pending
                    /\ before' = searcher
                    /\ ret' = Returned("flush", "", "Ok", <<>>)

\* tantivy queries
Included(v) == [bound |-> "Included", v |-> v]
Excluded(v) == [bound |-> "Excluded", v |-> v]
RangeQuery(field, lower, upper) == [kind |-> "range", field |-> field, lower |-> lower, upper |-> upper]
TermQuery(field, term) == [kind |-> "term", field |-> field, term |-> term]
BooleanQuery(sub_queries) == [kind |-> "bool", sub_queries |-> sub_queries]

\* the documents a tantivy query matches: a range query those whose field
\* value lies within the bounds, a term query those whose field holds the
\* term, a boolean query those that match every Must, no MustNot and, when
\* there is no Must, at least one Should
RECURSIVE matches(_, _)
matches(doc, q) ==
    CASE q.kind = "range" ->
            /\ IF q.lower.bound = "Included" THEN q.lower.v <= doc[q.field] ELSE q.lower.v < doc[q.field]
            /\ IF q.upper.bound = "Included" THEN doc[q.field] <= q.upper.v ELSE doc[q.field] < q.upper.v
      [] q.kind = "term" -> q.term \in doc[q.field]
      [] q.kind = "bool" ->
            LET sub == q.sub_queries
                with(occur) == {i \in 1..Len(sub) : sub[i][1] = occur}
            IN  /\ \A i \in with("Must") : matches(doc, sub[i][2])
                /\ \A i \in with("MustNot") : ~matches(doc, sub[i][2])
                /\ with("Must") = {} => \E i \in with("Should") : matches(doc, sub[i][2])

\* QueryParser::for_index(&index, vec![title, description]).parse_query: a
\* text is a sequence of words; an unbalanced parenthesis is a syntax error,
\* otherwise any word in any of the two fields matches
Ok(v) == [ok |-> TRUE, v |-> v]
Err == [ok |-> FALSE, v |-> <<>>]
parse_query(text) ==
    IF \E i \in 1..Len(text) : text[i] = "("
    THEN Err
    ELSE Ok(BooleanQuery([i \in 1..(2 * Len(text)) |->
                IF i <= Len(text)
                THEN <<"Should", TermQuery("title", to_lowercase(text[i]))>>
                ELSE <<"Should", TermQuery("description", to_lowercase(text[i - Len(text)]))>>]))

\* EntryIndexQuery; bbox and text are Options
NoBbox == [some |-> FALSE]
Bbox(sw_lat, sw_lng, ne_lat, ne_lng) ==
    [some |-> TRUE, south_west |-> [lat |-> sw_lat, lng |-> sw_lng],
     north_east |-> [lat |-> ne_lat, lng |-> ne_lng]]
NoText == [some |-> FALSE, v |-> <<>>]
Text(words) == [some |-> TRUE, v |-> words]
EntryIndexQuery(bbox, text, categories, tags) ==
    [bbox |-> bbox, text |-> text, categories |-> categories, tags |-> tags]

\* a group that requires every one of its terms
terms_query_AllRequired(field, terms) ==
    BooleanQuery([i \in 1..Len(terms) |-> <<"Must", TermQuery(field, to_lowercase(terms[i]))>>])

\* the group of a categories or tags clause: one term query, or the terms as Should
terms_query(field, terms) ==
    IF Len(terms) > 1
    THEN BooleanQuery([i \in 1..Len(terms) |-> <<"Should", TermQuery(field, to_lowercase(terms[i]))>>])
    ELSE TermQuery(field, to_lowercase(terms[1]))

\* the bounding box that excludes the two boundary longitudes of the gap too
bbox_sub_queries_InclusiveGap(bbox) ==
    IF ~bbox.some THEN <<>>
    ELSE LET lat_query == RangeQuery("lat", Included(bbox.south_west.lat), Included(bbox.north_east.lat))
         IN  IF bbox.south_west.lng <= bbox.north_east.lng
             THEN <<<<"Must", lat_query>>,
                    <<"Must", RangeQuery("lng", Included(bbox.south_west.lng), Included(bbox.north_east.lng))>>>>
             ELSE <<<<"Must", lat_query>>,
                    <<"MustNot", RangeQuery("lng", Included(bbox.north_east.lng), Included(bbox.south_west.lng))>>>>

\* the sub queries query_entries pushes, in its order
bbox_sub_queries(bbox) ==
    IF ~bbox.some THEN <<>>
    ELSE LET lat_query == RangeQuery("lat", Included(bbox.south_west.lat), Included(bbox.north_east.lat))
         IN  IF bbox.south_west.lng <= bbox.north_east.lng
             THEN <<<<"Must", lat_query>>,
                    <<"Must", RangeQuery("lng", Included(bbox.south_west.lng), Included(bbox.north_east.lng))>>>>
             ELSE <<<<"Must", lat_query>>,
                    <<"MustNot", RangeQuery("lng", Excluded(bbox.north_east.lng), Excluded(bbox.south_west.lng))>>>>

\* a text that fails to parse matches no document
text_sub_queries_MatchNothing(text) ==
    IF ~text.some THEN <<>>
    ELSE LET parsed == parse_query([i \in 1..Len(text.v) |-> to_lowercase(text.v[i])])
         IN  IF parsed.ok THEN <<<<"Must", parsed.v>>>> ELSE <<<<"Must", BooleanQuery(<<>>)>>>>

text_sub_queries(text) ==
    IF ~text.some THEN <<>>
    ELSE LET parsed == parse_query([i \in 1..Len(text.v) |-> to_lowercase(text.v[i])])
         IN  IF parsed.ok THEN <<<<"Must", parsed.v>>>> ELSE <<>>

categories_sub_queries(categories) ==
    IF categories = <<>> THEN <<>> ELSE <<<<"Must", terms_query("category", categories)>>>>

tags_sub_queries(tags) ==
    IF tags = <<>> THEN <<>> ELSE <<<<"Must", terms_query("tag", tags)>>>>

sub_queries(query) ==
    bbox_sub_queries(query.bbox) \o text_sub_queries(query.text)
        \o categories_sub_queries(query.categories) \o tags_sub_queries(query.tags)

\* searcher.search(&query, ..): the committed documents the composed query matches
search(docs, query) == SelectSeq(docs, LAMBDA d : matches(d, BooleanQuery(sub_queries(query))))

\* a collector that takes any `limit` documents in any order
TopDocs_AnyOrder(docs, limit) ==
    LET n == Len(docs)
        k == IF limit < n THEN limit ELSE n
    IN  {s \in [1..k -> 1..n] : \A i, j \in 1..k : i # j => s[i] # s[j]}

\* TopDocs::with_limit(limit).order_by_field(rating): the positions of the
\* `limit` highest rated documents, best first; ties in any order
TopDocs(docs, limit) ==
    LET n == Len(docs)
        k == IF limit < n THEN limit ELSE n
    IN  {s \in [1..k -> 1..n] :
            /\ \A i, j \in 1..k : i # j => s[i] # s[j]
            /\ \A i, j \in 1..k : i < j => docs[s[i]].rating >= docs[s[j]].rating
            /\ \A j \in 1..n : (\A i \in 1..k : s[i] # j) =>
                  \A i \in 1..k : docs[s[i]].rating >= docs[j].rating}

\* what can go wrong with one match: searcher.doc fails ("doc"), the stored
\* document has no id ("id"), get_entry_with_relations fails ("repo")
Faults == {"none", "doc", "id", "repo"}

\* a loop that ends at the first match that cannot be resolved
RECURSIVE top_results_StopAtFault(_, _, _)
top_results_StopAtFault(docs, top, faults) ==
    IF top = <<>> THEN <<>>
    ELSE LET d == docs[Head(top)]
         IN  IF faults[d.id] # "none" THEN <<>>
             ELSE <<[id |-> d.id, avg_rating |-> u64_to_avg_rating(d.rating)]>>
                     \o top_results_StopAtFault(docs, Tail(top), faults)

\* the loop over top_docs_by_rating: a match that cannot be resolved is skipped
RECURSIVE top_results(_, _, _)
top_results(docs, top, faults) ==
    IF top = <<>> THEN <<>>
    ELSE LET d == docs[Head(top)]
             rest == top_results(docs, Tail(top), faults)
         IN  IF faults[d.id] = "doc" THEN rest
             ELSE IF faults[d.id] = "id" THEN rest
             ELSE IF faults[d.id] = "repo" THEN rest
             ELSE <<[id |-> d.id, avg_rating |-> u64_to_avg_rating(d.rating)]>> \o rest

SearchOutcomes == {"Ok", "Err"}

\* a search that collects the `limit` best matches among the resolvable ones,
\* so that a match that cannot be resolved gives its place to the next one
query_entries_Refill(query, limit, outcome, faults) ==
    /\ IF outcome = "Err"
       THEN ret' = Returned("query_entries", "", "Err", <<>>)
       ELSE LET found == SelectSeq(search(searcher, query), LAMBDA d : faults[d.id] = "none")
            IN  \E top \in TopDocs(found, limit) :
                   ret' = Returned("query_entries", "", "Ok", top_results(found, top, faults))
    /\ applied' = <<>>
    /\ before' = <<>>
    /\ UNCHANGED <<writer, segments, searcher, pending>>

query_entries(query, limit, outcome, faults) ==
    /\ IF outcome = "Err"
       THEN \* searcher.search(&query, &collector)? returned early
            ret' = Returned("query_entries", "", "Err", <<>>)
       ELSE LET found == search(searcher, query)
            IN  \E top \in TopDocs(found, limit) :
                   ret' = Returned("query_entries", "", "Ok", top_results(found, top, faults))
    /\ applied' = <<>>
    /\ before' = <<>>
    /\ UNCHANGED <<writer, segments, searcher, pending>>

(***************************************************************************)
(* The index used directly by one caller                                   *)
(***************************************************************************)
\* the query of a caller that asks for every entry: a bounding box around all of them
EverywhereQuery == EntryIndexQuery(Bbox(-1, -1, 1, 1), NoText, <<>>, <<>>)

InitIndex ==
    /\ writer = <<>>
    /\ segments = <<>>
    /\ searcher = <<>>
    /\ pending = <<>>
    /\ applied = <<>>
    /\ before = <<>>
    /\ ret = Returned("none", "", "Ok", <<>>)
    /\ mutex = NoThread
    /\ poisoned = FALSE
    /\ pc = [t \in Threads |-> "idle"]
    /\ req = [t \in Threads |-> NoReq]
    /\ guard = [t \in Threads |-> "none"]

InitAvg ==
    /\ rated = ""
    /\ passed = <<>>
    /\ result = <<>>

InitWeb ==
    /\ db_ratings = <<>>
    /\ entry_ratings = [e \in WebEntries |-> <<>>]
    /\ started = FALSE
    /\ wpc = [t \in Threads |-> "idle"]
    /\ loc = [t \in Threads |-> [e_id |-> "", ratings |-> <<>>]]

InitPure ==
    /\ codec = NoCodec
    /\ asked = NoQuery
    /\ slice = <<>>
    /\ center = NoPoint
    /\ unsorted = <<>>

\* the store of the update use case: no entry, no tag, no request
InitUpdate ==
    /\ db_entries = <<>>
    /\ db_tags = <<>>
    /\ db_initial = <<>>
    /\ upd = <<>>

\* the web server's shared resources: ENTRY_RATINGS unlocked, every connection
\* of the pool idle, no request under way
InitPool ==
    /\ ratings_lock = NoThread
    /\ pool = PoolSize
    /\ hpc = [t \in Handlers |-> "idle"]

Init == InitIndex /\ InitAvg /\ InitWeb /\ InitPure /\ InitUpdate /\ InitPool

IndexAddOrUpdate ==
    \E e \in Entries, a \in AvgInputs : add_or_update_entry(e, a) /\ UNCHANGED <<evars, avars, wvars, pvars, uvars, hvars>>

IndexRemove ==
    \E id \in Ids : remove_entry_by_id(id) /\ UNCHANGED <<evars, avars, wvars, pvars, uvars, hvars>>

IndexFlush ==
    \E o \in FlushOutcomes : flush(o) /\ UNCHANGED <<evars, avars, wvars, pvars, uvars, hvars>>

IndexQuery ==
    \E l \in 1..MaxLimit, f \in [Ids -> {"none", "repo"}] :
        query_entries(EverywhereQuery, l, "Ok", f) /\ UNCHANGED <<evars, avars, wvars, pvars, uvars, hvars>>

Next == IndexAddOrUpdate \/ IndexRemove \/ IndexFlush \/ IndexQuery

Spec == Init /\ [][Next]_vars

(***************************************************************************)
(* SearchEngine: the index behind Arc<Mutex<..>>, called by several threads *)
(***************************************************************************)
EngineAvgInputs == {<<1, 4>>} \cup BadAvgInputs

Req(op, id, avg, limit) == [op |-> op, id |-> id, avg |-> avg, limit |-> limit]

EngineReqs ==
    {Req("add_or_update_entry", id, a, 0) : id \in EngineIds, a \in EngineAvgInputs}
    \cup {Req("remove_entry_by_id", id, <<0, 1>>, 0) : id \in EngineIds}
    \cup {Req("flush", "", <<0, 1>>, 0)}
    \cup {Req("query_entries", "", <<0, 1>>, 1)}

\* the mutating calls that have been made and have not returned yet
IsMutating(r) == r.op \in {"add_or_update_entry", "remove_entry_by_id"}
InFlight == Cardinality({t \in Threads : IsMutating(req[t])})

\* a thread enters one of the SearchEngine methods; a mutating method only
\* while it and those under way fit into the `cap` calls between two flushes
CallWithin(t, cap) ==
    /\ pc[t] = "idle"
    /\ \E r \in EngineReqs :
          /\ IsMutating(r) => NumCalls(pending) + InFlight < cap
          /\ req' = [req EXCEPT ![t] = r]
    /\ pc' = [pc EXCEPT ![t] = "lock"]
    /\ UNCHANGED <<ivars, mutex, poisoned, guard>>

Call(t) == CallWithin(t, MaxCalls)

\* a lock that does not exclude a second holder
Lock_NoExclusion(t) ==
    /\ pc[t] = "lock"
    /\ mutex' = t
    /\ guard' = [guard EXCEPT ![t] = IF poisoned THEN "Err" ELSE "Ok"]
    /\ pc' = [pc EXCEPT ![t] = "inner"]
    /\ UNCHANGED <<ivars, poisoned, req>>

\* self.0.lock().unwrap(): the caller panics on a poisoned mutex
Lock_Unwrap(t) ==
    /\ pc[t] = "lock"
    /\ mutex = NoThread
    /\ IF poisoned
       THEN /\ pc' = [pc EXCEPT ![t] = "idle"]
            /\ req' = [req EXCEPT ![t] = NoReq]
            /\ UNCHANGED <<ivars, mutex, poisoned, guard>>
       ELSE /\ mutex' = t
            /\ guard' = [guard EXCEPT ![t] = "Ok"]
            /\ pc' = [pc EXCEPT ![t] = "inner"]
            /\ UNCHANGED <<ivars, poisoned, req>>

\* match self.0.lock() { Ok(guard) => guard, Err(poisoned) => poisoned.into_inner() }
Lock(t) ==
    /\ pc[t] = "lock"
    /\ mutex = NoThread
    /\ mutex' = t
    /\ guard' = [guard EXCEPT ![t] = IF poisoned THEN "Err" ELSE "Ok"]
    /\ pc' = [pc EXCEPT ![t] = "inner"]
    /\ UNCHANGED <<ivars, poisoned, req>>

\* a return that leaves the mutex locked
Unlock_Leak(t) ==
    /\ mutex' = mutex
    /\ pc' = [pc EXCEPT ![t] = "idle"]
    /\ req' = [req EXCEPT ![t] = NoReq]
    /\ guard' = [guard EXCEPT ![t] = "none"]

\* the method returns and its guard is dropped
Unlock(t) ==
    /\ mutex' = NoThread
    /\ pc' = [pc EXCEPT ![t] = "idle"]
    /\ req' = [req EXCEPT ![t] = NoReq]
    /\ guard' = [guard EXCEPT ![t] = "none"]

SearchEngine_add_or_update_entry(t) ==
    /\ pc[t] = "inner"
    /\ req[t].op = "add_or_update_entry"
    /\ \E entry \in Entries : entry.id = req[t].id /\ add_or_update_entry(entry, req[t].avg)
    /\ Unlock(t)
    /\ UNCHANGED poisoned

\* debug_assert!(avg_rating.is_valid()) fails in a build with debug assertions:
\* the thread unwinds, the guard is dropped while panicking
Panic(t) ==
    /\ pc[t] = "inner"
    /\ req[t].op = "add_or_update_entry"
    /\ ~is_valid(req[t].avg)
    /\ poisoned' = TRUE
    /\ Unlock(t)
    /\ ret' = Returned("add_or_update_entry", req[t].id, "Panic", <<>>)
    /\ applied' = <<>>
    /\ before' = <<>>
    /\ UNCHANGED <<writer, segments, searcher, pending>>

SearchEngine_remove_entry_by_id(t) ==
    /\ pc[t] = "inner"
    /\ req[t].op = "remove_entry_by_id"
    /\ remove_entry_by_id(req[t].id)
    /\ Unlock(t)
    /\ UNCHANGED poisoned

SearchEngine_flush(t) ==
    /\ pc[t] = "inner"
    /\ req[t].op = "flush"
    /\ \E o \in FlushOutcomes : flush(o)
    /\ Unlock(t)
    /\ UNCHANGED poisoned

SearchEngine_query_entries(t) ==
    /\ pc[t] = "inner"
    /\ req[t].op = "query_entries"
    /\ \E f \in [EngineIds -> {"none", "repo"}] :
          query_entries(EverywhereQuery, req[t].limit, "Ok", f)
    /\ Unlock(t)
    /\ UNCHANGED poisoned

EngineNext ==
    /\ \E t \in Threads :
          \/ Call(t)
          \/ Lock(t)
          \/ SearchEngine_add_or_update_entry(t)
          \/ Panic(t)
          \/ SearchEngine_remove_entry_by_id(t)
          \/ SearchEngine_flush(t)
          \/ SearchEngine_query_entries(t)
    /\ UNCHANGED <<avars, wvars, pvars, uvars, hvars>>

SpecEngine == Init /\ [][EngineNext]_vars

(***************************************************************************)
(* Properties of the index mutator                                         *)
(***************************************************************************)
VisibleIds(docs) == {docs[i].id : i \in 1..Len(docs)}
CountId(docs, id) == Len(SelectSeq(docs, LAMBDA d : d.id = id))
DocOf(docs, id) == CHOOSE d \in {docs[i] : i \in 1..Len(docs)} : d.id = id
OpsOn(w, id) == SelectSeq(w, LAMBDA o : o.id = id)
NoOpOn(w, id) == OpsOn(w, id) = <<>>
LastOpOn(w, id) == OpsOn(w, id)[Len(OpsOn(w, id))]
LastIsAdd(w, id) == ~NoOpOn(w, id) /\ LastOpOn(w, id).call = "add_or_update_entry"
LastIsDelete(w, id) == ~NoOpOn(w, id) /\ LastOpOn(w, id).call = "remove_entry_by_id"
NumAdds(w, id) == Len(SelectSeq(w, LAMBDA o : o.id = id /\ o.call = "add_or_update_entry"))
FlushedOk == ret.op = "flush" /\ ret.res = "Ok"
OutIds(out) == {out[i].id : i \in 1..Len(out)}

\* C1: the committed index and the view the searcher queries hold at most one
\* document per identifier; after a flush that applied upserts of an identifier
\* last, exactly one document with that identifier is visible
C1_OneLiveDocumentPerId ==
    \A id \in Ids :
        /\ CountId(segments, id) <= 1
        /\ CountId(searcher, id) <= 1
        /\ (FlushedOk /\ LastIsAdd(applied, id)) => CountId(searcher, id) = 1

C1_Witness ==
    /\ FlushedOk
    /\ NumAdds(applied, "a") >= 2
    /\ LastIsAdd(applied, "a")
    /\ CountId(searcher, "a") = 1

\* C2: a step that changes what the searcher sees is a flush that returned Ok;
\* add_or_update_entry and remove_entry_by_id leave the searcher's view as it is
C2_OnlyFlushChangesVisible ==
    [][/\ (searcher' # searcher) => (ret'.op = "flush" /\ ret'.res = "Ok")
       /\ (ret' # ret /\ ret'.op \in {"add_or_update_entry", "remove_entry_by_id"})
              => searcher' = searcher]_vars

C2_Witness ==
    /\ ret.op \in {"add_or_update_entry", "remove_entry_by_id"}
    /\ searcher # <<>>
    /\ writer_commit(segments, writer) # searcher

\* C3: removing a visible identifier leaves it visible until a flush; a flush
\* whose last operation on the identifier is the removal makes it invisible; an
\* invisible identifier becomes visible only by a flush that applies an upsert
\* of it; a query never returns an identifier the searcher does not see
C3_RemovalVisibility ==
    [][\A id \in Ids :
        /\ (ret' # ret /\ ret'.op = "remove_entry_by_id" /\ ret'.id = id
              /\ id \in VisibleIds(searcher)) => id \in VisibleIds(searcher')
        /\ (ret'.op = "flush" /\ ret'.res = "Ok" /\ LastIsDelete(applied', id))
              => id \notin VisibleIds(searcher')
        /\ (id \notin VisibleIds(searcher) /\ id \in VisibleIds(searcher'))
              => (ret'.op = "flush" /\ ret'.res = "Ok" /\ NumAdds(applied', id) >= 1)
        /\ (ret'.op = "query_entries" /\ id \notin VisibleIds(searcher'))
              => id \notin OutIds(ret'.out)]_vars

C3_Witness ==
    /\ FlushedOk
    /\ "a" \in VisibleIds(before)
    /\ LastIsDelete(applied, "a")
    /\ "a" \notin VisibleIds(searcher)

\* C4: after a flush that returned Ok an identifier is visible iff the last
\* call applied to it was an upsert, or it was visible and no operation
\* was applied to it; an upserted identifier carries the fields of its last
\* upsert, an untouched one the fields it had
C4_FlushAppliesInOrder ==
    FlushedOk =>
        \A id \in Ids :
            /\ id \in VisibleIds(searcher) <=>
                  \/ LastIsAdd(applied, id)
                  \/ (id \in VisibleIds(before) /\ NoOpOn(applied, id))
            /\ LastIsAdd(applied, id) =>
                  DocOf(searcher, id).rating \in avg_rating_to_u64(LastOpOn(applied, id).avg)
            /\ (id \in VisibleIds(before) /\ NoOpOn(applied, id)) =>
                  DocOf(searcher, id) = DocOf(before, id)

\* remove(a); upsert(a) applied to a visible a with another rating
C4_Witness ==
    /\ FlushedOk
    /\ "a" \in VisibleIds(before)
    /\ Len(OpsOn(applied, "a")) = 2
    /\ OpsOn(applied, "a")[1].call = "remove_entry_by_id"
    /\ LastIsAdd(applied, "a")
    /\ DocOf(searcher, "a").rating # DocOf(before, "a").rating
    /\ "b" \in VisibleIds(before)
    /\ "b" \in VisibleIds(searcher)

\* C5: remove_entry_by_id returns Ok whatever the identifier; a flush that
\* applies nothing but removals of identifiers that were not visible leaves
\* the searcher's view exactly as it was
C5_RemoveUnknownId ==
    /\ ret.op = "remove_entry_by_id" => ret.res = "Ok"
    /\ (/\ FlushedOk
        /\ \A i \in 1..Len(applied) :
              applied[i].call = "remove_entry_by_id" /\ applied[i].id \notin VisibleIds(before))
       => searcher = before

C5_Witness ==
    /\ FlushedOk
    /\ applied = <<Remove("b")>>
    /\ before # <<>>
    /\ searcher = before

(***************************************************************************)
(* Properties of the SearchEngine lock                                     *)
(***************************************************************************)
Executing == {t \in Threads : pc[t] = "inner"}

\* C6: at most one thread is executing an operation on the inner index, and
\* a thread executes one exactly while it holds the mutex
C6_Serialized ==
    /\ Cardinality(Executing) <= 1
    /\ \A t \in Threads : pc[t] = "inner" <=> mutex = t

C6_Witness ==
    /\ pc["t1"] = "inner"
    /\ req["t1"].op = "query_entries"
    /\ pc["t2"] = "lock"
    /\ req["t2"].op = "add_or_update_entry"

\* C7: a thread that leaves lock() has the guard and goes on to run its
\* operation on the inner index, whether the mutex is poisoned or not
C7_PoisonIgnored ==
    [][\A t \in Threads :
          (pc[t] = "lock" /\ pc'[t] # "lock") =>
              (pc'[t] = "inner" /\ mutex' = t /\ req'[t] = req[t])]_vars

C7_Witness ==
    /\ poisoned
    /\ ret.res = "Panic"
    /\ pc["t2"] = "inner"
    /\ guard["t2"] = "Err"
    /\ req["t2"].op = "flush"

(***************************************************************************)
(* Rating aggregation: Rated::avg_rating                                   *)
(***************************************************************************)
Contexts == <<"Diversity", "Renewable", "Fairness", "Humanity", "Transparency", "Solidarity">>

Rating(entry_id, context, value) == [entry_id |-> entry_id, context |-> context, value |-> value]

Some(v) == [some |-> TRUE, v |-> v]
None == [some |-> FALSE, v |-> <<0, 1>>]
unwrap_or_default(o) == IF o.some THEN o.v ELSE <<0, 1>>

\* ratings.iter().filter(..).fold((0, 0), ..)
RECURSIVE fold_cnt_sum(_, _, _, _)
fold_cnt_sum(rs, context, cnt, acc) ==
    IF rs = <<>> THEN <<cnt, acc>>
    ELSE IF Head(rs).context = context
         THEN fold_cnt_sum(Tail(rs), context, cnt + 1, acc + Head(rs).value)
         ELSE fold_cnt_sum(Tail(rs), context, cnt, acc)

avg_rating_for_context(rs, context) ==
    LET cs == fold_cnt_sum(rs, context, 0, 0)
        cnt == cs[1]
        sum == cs[2]
    IN  IF cnt > 0 THEN Some(Rat(sum, cnt)) ELSE None

\* avg_ratings.iter().fold(AvgRatingValue::default(), |acc, &r| acc + r.unwrap_or_default())
RECURSIVE fold_sum(_, _)
fold_sum(os, acc) ==
    IF os = <<>> THEN acc
    ELSE fold_sum(Tail(os), RAdd(acc, unwrap_or_default(Head(os))))

\* the debug_assert_eq! of avg_rating: every rating belongs to the entry
avg_rating_precondition(entry_id, rs) ==
    Len(rs) = Len(SelectSeq(rs, LAMBDA r : r.entry_id = entry_id))

\* an average over the contexts that have ratings only
avg_rating_NonEmptyOnly(entry_id, rs) ==
    LET avg_ratings == [i \in 1..6 |-> avg_rating_for_context(rs, Contexts[i])]
        sum_ratings == fold_sum(avg_ratings, <<0, 1>>)
        n == Len(SelectSeq(avg_ratings, LAMBDA o : o.some))
    IN  IF n = 0 THEN <<0, 1>> ELSE RDiv(sum_ratings, <<n, 1>>)

avg_rating(entry_id, rs) ==
    LET avg_ratings == [i \in 1..6 |-> avg_rating_for_context(rs, Contexts[i])]
        sum_ratings == fold_sum(avg_ratings, <<0, 1>>)
    IN  RDiv(sum_ratings, <<6, 1>>)

\* avg_rating applied to every slice of ratings of one entry
AvgEntry == "a"
AvgContexts == {"Diversity", "Renewable", "Fairness"}
AvgValues == {0, 3, 7, 9, 10}
AvgRatingInputs == {Rating(AvgEntry, c, v) : c \in AvgContexts, v \in AvgValues}
RatingLists == UNION {[1..n -> AvgRatingInputs] : n \in 0..MaxRatings}

InitRated ==
    /\ InitIndex
    /\ InitWeb
    /\ InitUpdate
    /\ InitPool
    /\ InitPure
    /\ rated = ""
    /\ passed \in RatingLists
    /\ result = <<>>

Rate ==
    /\ rated = ""
    /\ avg_rating_precondition(AvgEntry, passed)
    /\ rated' = AvgEntry
    /\ result' = avg_rating(AvgEntry, passed)
    /\ UNCHANGED <<pvars, uvars, hvars, ivars, evars, wvars, passed>>

SpecAvg == InitRated /\ [][Rate]_vars

(***************************************************************************)
(* Properties of the rating aggregation                                    *)
(***************************************************************************)
RECURSIVE SumValues(_, _)
SumValues(rs, S) ==
    IF S = {} THEN 0
    ELSE LET i == CHOOSE j \in S : TRUE IN rs[i].value + SumValues(rs, S \ {i})

InContext(rs, c) == {i \in 1..Len(rs) : rs[i].context = c}

\* the arithmetic mean of the ratings in context c, 0 when there is none
ContextMean(rs, c) ==
    IF InContext(rs, c) = {} THEN <<0, 1>>
    ELSE Rat(SumValues(rs, InContext(rs, c)), Cardinality(InContext(rs, c)))

SumOfMeans(rs) ==
    RAdd(RAdd(RAdd(ContextMean(rs, "Diversity"), ContextMean(rs, "Renewable")),
              RAdd(ContextMean(rs, "Fairness"), ContextMean(rs, "Humanity"))),
         RAdd(ContextMean(rs, "Transparency"), ContextMean(rs, "Solidarity")))

OneContextExample ==
    <<Rating("a", "Diversity", 0), Rating("a", "Diversity", 0),
      Rating("a", "Diversity", 3), Rating("a", "Diversity", 3)>>

MultiContextExample ==
    <<Rating("a", "Diversity", 0), Rating("a", "Renewable", 10),
      Rating("a", "Fairness", 7), Rating("a", "Fairness", 9)>>

\* C8: avg_rating is the sum of the six context means (0 for a context without
\* ratings) divided by 6: 0 for no ratings, 1/4 for {0,0,3,3} in one context,
\* 3 for {Diversity:0, Renewable:10, Fairness:7, Fairness:9}
C8_AvgOfContextMeans ==
    rated # "" =>
        /\ RMul(result, <<6, 1>>) = SumOfMeans(passed)
        /\ passed = <<>> => result = <<0, 1>>
        /\ passed = OneContextExample => result = <<1, 4>>
        /\ passed = MultiContextExample => result = <<3, 1>>

C8_Witness ==
    /\ rated = "a"
    /\ passed = MultiContextExample
    /\ result = <<3, 1>>

\* C9: the value avg_rating returns is within [AvgRatingValue::min, AvgRatingValue::max]
C9_AvgWithinBounds ==
    rated # "" => is_valid(result)

(***************************************************************************)
(* The web layer: the ratings in the database and the ENTRY_RATINGS cache  *)
(***************************************************************************)
WebContexts == {"Diversity", "Renewable"}
WebValues == {0, 3}
WebRatingInputs == {Rating(e, c, v) : e \in WebEntries, c \in WebContexts, v \in WebValues}
\* the database the server is started on
SeedDbs == {<<>>} \cup {<<r>> : r \in WebRatingInputs}

InitServer ==
    /\ InitIndex
    /\ InitAvg
    /\ InitPure
    /\ InitUpdate
    /\ InitPool
    /\ db_ratings \in SeedDbs
    /\ entry_ratings = [e \in WebEntries |-> <<>>]
    /\ started = FALSE
    /\ wpc = [t \in Threads |-> "idle"]
    /\ loc = [t \in Threads |-> [e_id |-> "", ratings |-> <<>>]]

\* rocket_instance: the loop of calculate_all_ratings inserts an average for
\* every entry; rated, passed and result record one of the calls of the loop
calculate_all_ratings ==
    /\ ~started
    /\ LET entries == WebEntries
           all == db_ratings
       IN  /\ entry_ratings' = [e \in entries |-> avg_rating(e, all)]
           /\ \E e \in entries :
                 /\ rated' = e
                 /\ passed' = all
                 /\ result' = avg_rating(e, all)
    /\ started' = TRUE
    /\ UNCHANGED <<pvars, uvars, hvars, ivars, evars, db_ratings, wpc, loc>>

\* post_rating: usecase::rate_entry stores the rating
post_rating(t) ==
    /\ started
    /\ wpc[t] = "idle"
    /\ Len(db_ratings) < MaxStored
    /\ \E u \in WebRatingInputs :
          /\ db_ratings' = Append(db_ratings, u)
          /\ loc' = [loc EXCEPT ![t] = [e_id |-> u.entry_id, ratings |-> <<>>]]
    /\ wpc' = [wpc EXCEPT ![t] = "calculate"]
    /\ UNCHANGED <<pvars, uvars, hvars, ivars, evars, avars, entry_ratings, started>>

\* calculate_rating_for_entry: db.all_ratings() and db.get_entry(e_id)
calculate_rating_for_entry_read(t) ==
    /\ wpc[t] = "calculate"
    /\ loc' = [loc EXCEPT ![t].ratings = db_ratings]
    /\ wpc' = [wpc EXCEPT ![t] = "insert"]
    /\ UNCHANGED <<pvars, uvars, hvars, ivars, evars, avars, db_ratings, entry_ratings, started>>

\* calculate_rating_for_entry: under the ENTRY_RATINGS lock, insert e.avg_rating(&ratings)
calculate_rating_for_entry_insert(t) ==
    /\ wpc[t] = "insert"
    /\ LET e_id == loc[t].e_id
           rs == loc[t].ratings
       IN  /\ rated' = e_id
           /\ passed' = rs
           /\ result' = avg_rating(e_id, rs)
           /\ entry_ratings' = [entry_ratings EXCEPT ![e_id] = avg_rating(e_id, rs)]
    /\ wpc' = [wpc EXCEPT ![t] = "idle"]
    /\ loc' = [loc EXCEPT ![t] = [e_id |-> "", ratings |-> <<>>]]
    /\ UNCHANGED <<pvars, uvars, hvars, ivars, evars, db_ratings, started>>

\* the same call in a build with debug assertions: the debug_assert_eq! of
\* avg_rating fails, the request panics and nothing is inserted
calculate_rating_for_entry_panic(t) ==
    /\ wpc[t] = "insert"
    /\ ~avg_rating_precondition(loc[t].e_id, loc[t].ratings)
    /\ rated' = loc[t].e_id
    /\ passed' = loc[t].ratings
    /\ result' = <<>>
    /\ wpc' = [wpc EXCEPT ![t] = "idle"]
    /\ loc' = [loc EXCEPT ![t] = [e_id |-> "", ratings |-> <<>>]]
    /\ UNCHANGED <<pvars, uvars, hvars, ivars, evars, db_ratings, entry_ratings, started>>

WebNext ==
    \/ calculate_all_ratings
    \/ \E t \in Threads :
          \/ post_rating(t)
          \/ calculate_rating_for_entry_read(t)
          \/ calculate_rating_for_entry_insert(t)
          \/ calculate_rating_for_entry_panic(t)

SpecWeb == InitServer /\ [][WebNext]_vars

\* C10: at every call of avg_rating every rating of the slice passed belongs
\* to the entry that is rated
C10_RatingsPreFiltered ==
    rated # "" => avg_rating_precondition(rated, passed)

(***************************************************************************)
(* The codec called on its own: a value is quantized and restored, or a    *)
(* stored quantized value is restored                                      *)
(***************************************************************************)
\* the f64 values k / 2^(MBits-1) up to 3 in magnitude
F64Grid ==
    {x \in {Rat(n, 2 ^ (MBits - 1)) : n \in (-3 * 2 ^ (MBits - 1))..(3 * 2 ^ (MBits - 1))} : f64(x) = x}

\* [min, max] of the callers: the bounds of AvgRatingValue, other unit
\* ranges, and a range as narrow as EPSILON
CodecRanges ==
    {<<AvgRatingMin, AvgRatingMax>>, <<<<-1, 1>>, <<2, 1>>>>, <<<<0, 1>>, <<1, 1>>>>, <<<<0, 1>>, EPSILON>>}

CodecCall(stage, val, min, max, u) ==
    [stage |-> stage, val |-> val, min |-> min, max |-> max, u |-> u, back |-> <<>>]

InitCodec ==
    /\ InitIndex
    /\ InitAvg
    /\ InitWeb
    /\ InitUpdate
    /\ InitPool
    /\ asked = NoQuery
    /\ slice = <<>>
    /\ center = NoPoint
    /\ unsorted = <<>>
    /\ \E r \in CodecRanges :
          \/ \E v \in F64Grid :
                /\ RLe(r[1], v) /\ RLe(v, r[2])
                /\ codec = CodecCall("val", v, r[1], r[2], 0)
          \/ \E u \in 0..UMax : codec = CodecCall("raw", <<0, 1>>, r[1], r[2], u)

\* a call of f64_to_u64 on a value within [min, max]
Encode ==
    /\ codec.stage = "val"
    /\ \E u \in f64_to_u64(codec.val, codec.min, codec.max) :
          codec' = [codec EXCEPT !.stage = "encoded", !.u = u]
    /\ UNCHANGED <<ivars, evars, avars, wvars, uvars, hvars, asked, slice, center, unsorted>>

\* a call of u64_to_f64 on what f64_to_u64 returned, or on a stored value
Decode ==
    /\ codec.stage \in {"encoded", "raw"}
    /\ codec' = [codec EXCEPT !.stage = IF codec.stage = "encoded" THEN "restored" ELSE "decoded",
                              !.back = u64_to_f64(codec.u, codec.min, codec.max)]
    /\ UNCHANGED <<ivars, evars, avars, wvars, uvars, hvars, asked, slice, center, unsorted>>

CodecNext == Encode \/ Decode

SpecCodec == InitCodec /\ [][CodecNext]_vars

\* C11: for every min < max, f64_to_u64(min) = 0, f64_to_u64(max) = UMax,
\* u64_to_f64(0) = min and u64_to_f64(UMax) = max
C11_EndpointsExact ==
    /\ (codec.stage \in {"encoded", "restored"} /\ codec.val = codec.min) => codec.u = 0
    /\ (codec.stage \in {"encoded", "restored"} /\ codec.val = codec.max) => codec.u = UMax
    /\ (codec.stage \in {"decoded", "restored"} /\ codec.u = 0) => codec.back = codec.min
    /\ (codec.stage \in {"decoded", "restored"} /\ codec.u = UMax) => codec.back = codec.max

\* C12: for every min < max and every v in [min, max], the value restored
\* from f64_to_u64(v) differs from v by at most one quantization step
\* (max - min) / UMax and lies within [min, max]
C12_RoundTripWithinOneStep ==
    codec.stage = "restored" =>
        /\ RLe(RAbs(RSub(codec.back, codec.val)), RDiv(RSub(codec.max, codec.min), <<UMax, 1>>))
        /\ RLe(codec.min, codec.back)
        /\ RLe(codec.back, codec.max)

(***************************************************************************)
(* query_entries on a committed index: which documents a query matches     *)
(***************************************************************************)
MatchLats == {<<0, 1>>, <<1, 1>>, <<2, 1>>}
MatchLngs == {<<-1, 1>>, <<1, 2>>, <<1, 1>>, <<2, 1>>}
MatchTitles == {<<"Cafe">>, <<"bar">>}
MatchCategories == {<<>>, <<"shop">>, <<"Shop">>, <<"shop", "farm">>}
MatchTags == {<<>>, <<"bio">>, <<"Bio">>}
MatchEntries ==
    {Entry("a", lat, lng, title, categories, tags) :
        lat \in MatchLats, lng \in MatchLngs, title \in MatchTitles,
        categories \in MatchCategories, tags \in MatchTags}
OtherEntry == Entry("b", <<0, 1>>, <<0, 1>>, <<"bar">>, <<"farm">>, <<"vegan">>)

\* bounding boxes in raw units: none, a regular one, one across the antimeridian
QueryBboxes == {NoBbox, Bbox(-2, -2, 2, 2), Bbox(-2, 2, 2, -2)}
QueryTexts == {NoText, Text(<<"Cafe">>), Text(<<"bar">>), Text(<<"(", "Cafe">>)}
QueryCategories == {<<>>, <<"shop">>, <<"Shop">>, <<"farm">>, <<"shop", "farm">>}
QueryTags == {<<>>, <<"bio">>, <<"Bio">>, <<"bio", "vegan">>}
MatchQueries ==
    {EntryIndexQuery(bbox, text, categories, tags) :
        bbox \in QueryBboxes, text \in QueryTexts,
        categories \in QueryCategories, tags \in QueryTags}

NoFaults == [id \in {"a", "b", "c"} |-> "none"]
Asked(query, limit, outcome, faults) ==
    [query |-> query, limit |-> limit, outcome |-> outcome, faults |-> faults]

\* an index the documents docs have been committed to and loaded from
InitCommitted(docs) ==
    /\ writer = <<>>
    /\ segments = docs
    /\ searcher = docs
    /\ pending = <<>>
    /\ applied = <<>>
    /\ before = <<>>
    /\ ret = Returned("none", "", "Ok", <<>>)
    /\ mutex = NoThread
    /\ poisoned = FALSE
    /\ pc = [t \in Threads |-> "idle"]
    /\ req = [t \in Threads |-> NoReq]
    /\ guard = [t \in Threads |-> "none"]
    /\ InitAvg
    /\ InitWeb
    /\ InitUpdate
    /\ InitPool
    /\ InitPure

InitMatch ==
    \E e \in MatchEntries, r1 \in avg_rating_to_u64(<<1, 4>>), r2 \in avg_rating_to_u64(<<3, 1>>) :
        \/ InitCommitted(<<Document(e, r1)>>)
        \/ InitCommitted(<<Document(e, r1), Document(OtherEntry, r2)>>)

\* one call of query_entries on the index
QueryMatch ==
    /\ asked = NoQuery
    /\ \E q \in MatchQueries, l \in {1, MaxLimit} :
          /\ query_entries(q, l, "Ok", NoFaults)
          /\ asked' = Asked(q, l, "Ok", NoFaults)
          /\ UNCHANGED <<evars, avars, wvars, uvars, hvars, codec, slice, center, unsorted>>

SpecMatch == InitMatch /\ [][QueryMatch]_vars

(***************************************************************************)
(* query_entries on a committed index: which matches it returns            *)
(***************************************************************************)
TopIds == <<"a", "b", "c", "d">>
TopAvgs == {<<-3, 1>>, <<1, 4>>, <<3, 1>>}
TopTags == {<<>>, <<"bio">>}
TopEntry(id, tags) == Entry(id, <<0, 1>>, <<0, 1>>, <<"Cafe">>, <<>>, tags)
TopIndexes ==
    UNION {{[i \in 1..n |-> Document(TopEntry(TopIds[i], t[i]), r[i])] :
                t \in [1..n -> TopTags],
                r \in [1..n -> UNION {avg_rating_to_u64(a) : a \in TopAvgs}]} : n \in 0..MaxDocs}
TopQueries == {EntryIndexQuery(Bbox(-1, -1, 1, 1), NoText, <<>>, tags) : tags \in TopTags}
TopFaults == [{TopIds[i] : i \in 1..MaxDocs} -> Faults]

InitTop == \E docs \in TopIndexes : InitCommitted(docs)

\* one call of query_entries on the index
QueryTop ==
    /\ asked = NoQuery
    /\ \E q \in TopQueries, l \in 1..MaxLimit, o \in SearchOutcomes, f \in TopFaults :
          /\ query_entries(q, l, o, f)
          /\ asked' = Asked(q, l, o, f)
          /\ UNCHANGED <<evars, avars, wvars, uvars, hvars, codec, slice, center, unsorted>>

SpecTop == InitTop /\ [][QueryTop]_vars

(***************************************************************************)
(* Properties of query_entries                                             *)
(***************************************************************************)
\* a call has returned and its limit covers every committed document
AskedAll == asked.limit > 0 /\ asked.limit >= Len(searcher)
IsReturned(d) == d.id \in OutIds(ret.out)
Committed == {searcher[i] : i \in 1..Len(searcher)}

\* the quantized coordinates of the document against the box
WrapsAntimeridian(bbox) == bbox.some /\ bbox.south_west.lng > bbox.north_east.lng
LatWithin(d, bbox) == bbox.south_west.lat <= d.lat /\ d.lat <= bbox.north_east.lat
LngWithin(d, bbox) == bbox.south_west.lng <= d.lng /\ d.lng <= bbox.north_east.lng
LngInGap(d, bbox) == bbox.north_east.lng < d.lng /\ d.lng < bbox.south_west.lng
InBbox(d, bbox) ==
    bbox.some =>
        /\ LatWithin(d, bbox)
        /\ IF WrapsAntimeridian(bbox) THEN ~LngInGap(d, bbox) ELSE LngWithin(d, bbox)

\* identifiers are compared ignoring letter case
SameIgnoringCase(x, y) == to_lowercase(x) = to_lowercase(y)
HasCategoryIn(d, categories) ==
    \E c \in d.category : \E i \in 1..Len(categories) : SameIgnoringCase(c, categories[i])
HasTagIn(d, tags) ==
    \E t \in d.tag : \E i \in 1..Len(tags) : SameIgnoringCase(t, tags[i])
LowerCaseCategories(d) == \A c \in d.category : to_lowercase(c) = c

\* C13: for a box with south-west longitude > north-east longitude a committed
\* entry matches the box iff its latitude is within [sw.lat, ne.lat] and its
\* longitude is not strictly between ne.lng and sw.lng; the two boundary
\* longitudes and everything outside the band are included
C13_WrapBboxMatches ==
    (AskedAll /\ WrapsAntimeridian(asked.query.bbox)) =>
        \A d \in Committed :
            /\ IsReturned(d) => (LatWithin(d, asked.query.bbox) /\ ~LngInGap(d, asked.query.bbox))
            /\ (~asked.query.text.some /\ asked.query.categories = <<>> /\ asked.query.tags = <<>>)
                  => ((LatWithin(d, asked.query.bbox) /\ ~LngInGap(d, asked.query.bbox)) => IsReturned(d))

\* an entry on the boundary longitude ne.lng is returned
C13_Witness ==
    /\ AskedAll
    /\ WrapsAntimeridian(asked.query.bbox)
    /\ ~asked.query.text.some /\ asked.query.categories = <<>> /\ asked.query.tags = <<>>
    /\ \E d \in Committed : d.lng = asked.query.bbox.north_east.lng /\ IsReturned(d)

C15_CategoryCaseNormalized ==
    (AskedAll /\ ~asked.query.bbox.some /\ ~asked.query.text.some
        /\ Len(asked.query.categories) = 1 /\ asked.query.tags = <<>>) =>
        \A d \in Committed :
            (\E c \in d.category : SameIgnoringCase(c, asked.query.categories[1])) => IsReturned(d)

\* what query_entries can return for a query on the committed index
ResultsOf(query, limit, faults) ==
    {top_results(search(searcher, query), top, faults) :
        top \in TopDocs(search(searcher, query), limit)}
FailsToParse(text) == text.some /\ \E i \in 1..Len(text.v) : text.v[i] = "("

\* C18: when the free text fails to parse, query_entries returns Ok and what
\* it returns is a result of the same query without text, which has the same
\* results
C18_UnparsableTextDropped ==
    (asked.limit > 0 /\ asked.outcome = "Ok" /\ FailsToParse(asked.query.text)) =>
        LET without == [asked.query EXCEPT !.text = NoText]
        IN  /\ ret.res = "Ok"
            /\ ret.out \in ResultsOf(without, asked.limit, asked.faults)
            /\ ResultsOf(asked.query, asked.limit, asked.faults)
                  = ResultsOf(without, asked.limit, asked.faults)

\* a text that fails to parse, in a query whose other clauses match an entry
\* the text would not
C18_Witness ==
    /\ asked.limit > 0
    /\ FailsToParse(asked.query.text)
    /\ \E d \in Committed : IsReturned(d) /\ "cafe" \notin d.title

\* the quantized rating of a returned entry
RatingOf(id) == DocOf(searcher, id).rating
NonIncreasing(out) == \A i, j \in 1..Len(out) : i < j => RatingOf(out[i].id) >= RatingOf(out[j].id)
Distinct(out) == \A i, j \in 1..Len(out) : i # j => out[i].id # out[j].id
\* the committed documents that satisfy the query (one without text)
Satisfying(query) ==
    {d.id : d \in {d \in Committed :
        /\ InBbox(d, query.bbox)
        /\ query.categories # <<>> => HasCategoryIn(d, query.categories)
        /\ query.tags # <<>> => HasTagIn(d, query.tags)}}
\* the selections of `limit` highest rated ones among them
Selections(query, limit) ==
    LET all == Satisfying(query)
        k == IF limit < Cardinality(all) THEN limit ELSE Cardinality(all)
    IN  {S \in SUBSET all :
            /\ Cardinality(S) = k
            /\ \A s \in S : \A m \in all \ S : RatingOf(m) <= RatingOf(s)}

\* C16: query_entries returns at most `limit` results in non-increasing order
\* of quantized rating, taken from the `limit` highest rated committed
\* documents that match: no match outside the selection is rated strictly
\* higher than a selected one
C16_TopByRating ==
    (asked.limit > 0 /\ ret.res = "Ok") =>
        /\ Len(ret.out) <= asked.limit
        /\ NonIncreasing(ret.out)
        /\ Distinct(ret.out)
        /\ \E S \in Selections(asked.query, asked.limit) : OutIds(ret.out) \subseteq S

\* three matches with different ratings and limit 2: the two best, best first
C16_Witness ==
    /\ asked.limit = 2
    /\ Cardinality(Satisfying(asked.query)) = 3
    /\ Len(ret.out) = 2
    /\ RatingOf(ret.out[1].id) > RatingOf(ret.out[2].id)
    /\ \E m \in Satisfying(asked.query) : RatingOf(m) < RatingOf(ret.out[2].id)

\* C17: when a match cannot be resolved (the document cannot be loaded, it has
\* no identifier, or the repository lookup fails), query_entries still returns
\* Ok, with exactly the other matches of the selection in rating order
C17_BadMatchSkipped ==
    (asked.limit > 0 /\ asked.outcome = "Ok") =>
        /\ ret.res = "Ok"
        /\ NonIncreasing(ret.out)
        /\ Distinct(ret.out)
        /\ \E S \in Selections(asked.query, asked.limit) :
              OutIds(ret.out) = {id \in S : asked.faults[id] = "none"}

\* the best match cannot be resolved, the second best is returned
C17_Witness ==
    /\ asked.limit = 2
    /\ asked.outcome = "Ok"
    /\ {"a", "b"} \subseteq Satisfying(asked.query)
    /\ asked.faults["a"] # "none"
    /\ RatingOf("a") > RatingOf("b")
    /\ OutIds(ret.out) = {"b"}

\* the matches of the selection S that cannot be resolved
Unresolved(S) == {id \in S : asked.faults[id] # "none"}

\* C29: the result holds as many entries as the collector selected (`limit`,
\* or every match when there are fewer) less the selected ones that cannot be
\* resolved, all of them from the selection: no lower rated match takes the
\* place of a skipped one
C29_SkippedNotReplaced ==
    (asked.limit > 0 /\ asked.outcome = "Ok") =>
        \E S \in Selections(asked.query, asked.limit) :
            /\ Len(ret.out) = Cardinality(S) - Cardinality(Unresolved(S))
            /\ OutIds(ret.out) \subseteq S

\* limit 1: the best match cannot be resolved and nothing is returned, though
\* a lower rated match could be
C29_Witness ==
    /\ asked.limit = 1
    /\ asked.outcome = "Ok"
    /\ {"a", "b"} \subseteq Satisfying(asked.query)
    /\ RatingOf("a") > RatingOf("b")
    /\ asked.faults["a"] # "none"
    /\ asked.faults["b"] = "none"
    /\ ret.res = "Ok"
    /\ ret.out = <<>>

(***************************************************************************)
(* sort_by_distance_to on a slice of entries                               *)
(*                                                                         *)
(* An f64 coordinate that is not finite is the rational with denominator   *)
(* 0: NaN is 0/0 and INFINITY is 1/0.                                      *)
(***************************************************************************)
NAN == <<0, 0>>
INFINITY == <<1, 0>>
is_finite(x) == x[2] # 0
is_nan(x) == x[2] = 0 /\ x[1] = 0

\* MapPoint: valid when both coordinates are finite degrees within
\* [-90, 90] and [-180, 180]
MapPoint(valid, lat, lng) == [valid |-> valid, lat |-> lat, lng |-> lng]
MapPoint_is_valid(point) == point.valid
try_from_lat_lng_deg(lat, lng) ==
    IF /\ is_finite(lat) /\ RLe(<<-90, 1>>, lat) /\ RLe(lat, <<90, 1>>)
       /\ is_finite(lng) /\ RLe(<<-180, 1>>, lng) /\ RLe(lng, <<180, 1>>)
    THEN [some |-> TRUE, v |-> MapPoint(TRUE, lat, lng)]
    ELSE [some |-> FALSE, v |-> NoPoint]

\* MapPoint::distance between two valid points, measured in the plane of the
\* degrees (squared): it orders the points of the model as the distance on
\* the sphere does
MapPoint_distance(here, there) ==
    LET dlat == RSub(here.lat, there.lat)
        dlng == RSub(here.lng, there.lng)
    IN  [some |-> TRUE, v |-> RAdd(RMul(dlat, dlat), RMul(dlng, dlng))]
Distance_infinite == INFINITY

\* an entry without coordinates is as near as can be
distance_to_ZeroWhenInvalid(entry, there) ==
    LET here == try_from_lat_lng_deg(entry.location.lat, entry.location.lng)
    IN  IF here.some THEN MapPoint_distance(here.v, there).v ELSE <<0, 1>>

\* here.and_then(|here| MapPoint::distance(here, there)).unwrap_or(Distance::infinite())
distance_to(entry, there) ==
    LET here == try_from_lat_lng_deg(entry.location.lat, entry.location.lng)
        distance == IF here.some THEN MapPoint_distance(here.v, there) ELSE [some |-> FALSE, v |-> <<0, 1>>]
    IN  IF distance.some THEN distance.v ELSE Distance_infinite

\* PartialOrd of Distance (an f64): None when a NaN is involved
partial_cmp(x, y) ==
    IF is_nan(x) \/ is_nan(y) THEN "None"
    ELSE IF x[1] * y[2] < y[1] * x[2] THEN "Less"
    ELSE IF y[1] * x[2] < x[1] * y[2] THEN "Greater"
    ELSE "Equal"

\* the closure passed to sort_by
compare(a, b, center_) ==
    LET ordering == partial_cmp(distance_to(a, center_), distance_to(b, center_))
    IN  IF ordering = "None" THEN "Equal" ELSE ordering

\* slice::sort_by is a stable sort: an element goes behind the ones that
\* compare less than or equal to it
RECURSIVE insert(_, _, _)
insert(sorted, e, center_) ==
    IF sorted = <<>> THEN <<e>>
    ELSE IF compare(e, Head(sorted), center_) = "Less" THEN <<e>> \o sorted
    ELSE <<Head(sorted)>> \o insert(Tail(sorted), e, center_)

RECURSIVE sort_by(_, _)
sort_by(entries, center_) ==
    IF entries = <<>> THEN <<>>
    ELSE insert(sort_by(SubSeq(entries, 1, Len(entries) - 1), center_), entries[Len(entries)], center_)

\* the sort that does not look at the reference point
sort_by_distance_to_Unchecked ==
    /\ unsorted = <<>>
    /\ unsorted' = slice
    /\ slice' = sort_by(slice, center)
    /\ UNCHANGED <<ivars, evars, avars, wvars, uvars, hvars, codec, asked, center>>

sort_by_distance_to ==
    /\ unsorted = <<>>
    /\ unsorted' = slice
    /\ IF ~MapPoint_is_valid(center)
       THEN slice' = slice
       ELSE slice' = sort_by(slice, center)
    /\ UNCHANGED <<ivars, evars, avars, wvars, uvars, hvars, codec, asked, center>>

\* the coordinates of the entries: those of the unit tests and one beyond 90 degrees
SortLocations ==
    {<<<<1, 1>>, <<0, 1>>>>, <<<<0, 1>>, <<0, 1>>>>, <<<<1, 1>>, <<1, 1>>>>, <<<<0, 1>>, <<1, 2>>>>,
     <<<<-1, 1>>, <<-1, 1>>>>, <<<<1, 1>>, NAN>>, <<<<1, 1>>, INFINITY>>, <<NAN, NAN>>,
     <<<<91, 1>>, <<0, 1>>>>}
SortIds == <<"a", "b", "c", "d">>
SortSlices ==
    UNION {{[i \in 1..n |-> Entry(SortIds[i], l[i][1], l[i][2], <<>>, <<>>, <<>>)] :
                l \in [1..n -> SortLocations]} : n \in 1..MaxSlice}
\* MapPoint::from_lat_lng_deg(0.0, 0.0), another valid point, and
\* MapPoint::new(LatCoord::default(), LngCoord::from_deg(0.0))
SortCenters == {MapPoint(TRUE, <<0, 1>>, <<0, 1>>), MapPoint(TRUE, <<1, 1>>, <<1, 1>>), NoPoint}

InitSort ==
    /\ InitIndex
    /\ InitAvg
    /\ InitWeb
    /\ InitUpdate
    /\ InitPool
    /\ codec = NoCodec
    /\ asked = NoQuery
    /\ slice \in SortSlices
    /\ center \in SortCenters
    /\ unsorted = <<>>

SpecSort == InitSort /\ [][sort_by_distance_to]_vars

\* the call has returned
Sorted == unsorted # <<>>
Positions == 1..Len(slice)
IsPermutation(s, t) ==
    /\ Len(s) = Len(t)
    /\ \E p \in [1..Len(s) -> 1..Len(s)] :
          /\ \A i, j \in 1..Len(s) : i # j => p[i] # p[j]
          /\ \A i \in 1..Len(s) : s[i] = t[p[i]]
HasValidCoordinates(e) == try_from_lat_lng_deg(e.location.lat, e.location.lng).some
\* the distance of the claim: infinite for an entry without valid coordinates
DistanceOf(e) ==
    IF HasValidCoordinates(e)
    THEN MapPoint_distance(try_from_lat_lng_deg(e.location.lat, e.location.lng).v, center).v
    ELSE INFINITY
NotFarther(x, y) == x[1] * y[2] <= y[1] * x[2]

\* C19: sort_by_distance_to with an invalid reference point leaves the slice
\* exactly as it was
C19_InvalidCenterKeepsOrder ==
    (Sorted /\ ~MapPoint_is_valid(center)) => slice = unsorted

\* a slice that a valid reference point at the same degrees would reorder
C19_Witness ==
    /\ Sorted
    /\ ~MapPoint_is_valid(center)
    /\ Len(slice) >= 2
    /\ sort_by(slice, center) # slice

\* C20: with a valid reference point the slice is left a permutation of what
\* it was, ordered by non-decreasing distance to the point, an entry with
\* invalid coordinates counting as infinitely far; every entry with valid
\* coordinates precedes every entry without
C20_SortedByDistance ==
    (Sorted /\ MapPoint_is_valid(center)) =>
        /\ IsPermutation(slice, unsorted)
        /\ \A i, j \in Positions : i < j => NotFarther(DistanceOf(slice[i]), DistanceOf(slice[j]))
        /\ \A i, j \in Positions :
              (HasValidCoordinates(slice[i]) /\ ~HasValidCoordinates(slice[j])) => i < j

\* an entry with a NaN coordinate was first and is last now, behind two valid
\* entries that changed places
C20_Witness ==
    /\ Sorted
    /\ MapPoint_is_valid(center)
    /\ Len(slice) = 3
    /\ ~HasValidCoordinates(unsorted[1])
    /\ slice[3] = unsorted[1]
    /\ slice[1] = unsorted[3]
    /\ slice[2] = unsorted[2]
    /\ DistanceOf(slice[1]) # DistanceOf(slice[2])

(***************************************************************************)
(* The update use case: prepare_updated_entry and store_updated_entry,     *)
(* called by request threads on one Db.  Of UpdateEntry and Entry the      *)
(* fields the use case decides on are kept (the address, the categories    *)
(* and the image URLs are copied like the homepage; created_at is the time *)
(* of the call)                                                            *)
(***************************************************************************)
Error(e) == [ok |-> FALSE, v |-> e]

UpdateEntry(version, title, description, lat, lng, email, homepage, tags) ==
    [version |-> version, title |-> title, description |-> description, lat |-> lat, lng |-> lng,
     email |-> email, homepage |-> homepage, tags |-> tags]

\* Entry { uid, archived_at, version, title, description, location, contact, homepage, tags, license };
\* an absent Option<String> is ""
DbEntry(uid, version, title, description, pos, email, homepage, tags, license) ==
    [uid |-> uid, archived_at |-> "None", version |-> version, title |-> title,
     description |-> description, pos |-> pos, email |-> email, homepage |-> homepage,
     tags |-> tags, license |-> license]
NoEntry == DbEntry("", 0, "", "", NoPoint, "", "", <<>>, "")

\* Db::get_entry: the stored entry with the uid, or RepoError::NotFound
get_entry(db, uid) ==
    IF \E i \in 1..Len(db) : db[i].uid = uid
    THEN Ok(db[CHOOSE i \in 1..Len(db) : db[i].uid = uid /\ \A j \in 1..(i - 1) : db[j].uid # uid])
    ELSE Error("NotFound")

\* an update that adds the new version next to the old one
update_entry_Insert(db, entry) ==
    IF \E i \in 1..Len(db) : db[i].uid = entry.uid THEN Ok(Append(db, entry)) ELSE Error("NotFound")

\* Db::update_entry: the entry stored under the uid is replaced, whatever its
\* version; RepoError::NotFound when there is none
update_entry(db, entry) ==
    IF \E i \in 1..Len(db) : db[i].uid = entry.uid
    THEN Ok([i \in 1..Len(db) |-> IF db[i].uid = entry.uid THEN entry ELSE db[i]])
    ELSE Error("NotFound")

\* Db::create_tag_if_it_does_not_exist
create_tag_if_it_does_not_exist(tags, t) ==
    IF \E i \in 1..Len(tags) : tags[i] = t THEN tags ELSE Append(tags, t)

\* str::trim on the tags of the model
trim(t) == CASE t = " bio" -> "bio" [] t = " " -> "" [] OTHER -> t

\* Vec::dedup: consecutive repetitions are removed
RECURSIVE dedup(_)
dedup(ts) ==
    IF Len(ts) <= 1 THEN ts
    ELSE IF ts[1] = ts[2] THEN dedup(Tail(ts))
    ELSE <<ts[1]>> \o dedup(Tail(ts))

\* usecases::prepare_tag_list: the tags trimmed, the empty ones dropped,
\* repetitions removed
prepare_tag_list(tags) ==
    dedup(SelectSeq([i \in 1..Len(tags) |-> trim(tags[i])], LAMBDA t : t # ""))

\* usecases::check_and_count_owned_tags(db, &tags, None): a tag owned by an
\* organization may not be used by a caller without organization
OwnedTags == {"owned"}
check_and_count_owned_tags(tags) ==
    IF \E i \in 1..Len(tags) : tags[i] \in OwnedTags
    THEN Error("OwnedTag")
    ELSE Ok(0)

\* parse_url_param on the URLs of the model (a URL without scheme gets
\* https://www., the parsed URL ends in a slash), mapped over an Option
parse_url_param(url) ==
    CASE url = "" -> Ok("")
      [] url = "img2" -> Ok("https://www.img2/")
      [] url = "http://imglink" -> Ok("http://imglink/")
      [] OTHER -> Error("Url")

\* Validate for Entry: the e-mail address of the contact is well-formed
validate(entry) == IF entry.email \in {"", "a@b.c"} THEN Ok(entry) ELSE Error("Email")

\* the position is validated before the version is compared
prepare_updated_entry_PositionFirst(db, uid, e) ==
    LET old == get_entry(db, uid)
        pos == try_from_lat_lng_deg(e.lat, e.lng)
        tags == prepare_tag_list(e.tags)
        homepage == parse_url_param(e.homepage)
        entry == DbEntry(uid, e.version, e.title, e.description, pos.v, e.email, homepage.v, tags,
                         old.v.license)
    IN  IF ~old.ok THEN old
        ELSE IF ~pos.some THEN Error("InvalidPosition")
        ELSE IF old.v.version + 1 # e.version THEN Error("InvalidVersion")
        ELSE IF ~check_and_count_owned_tags(tags).ok THEN check_and_count_owned_tags(tags)
        ELSE IF ~homepage.ok THEN homepage
        ELSE validate(entry)

\* prepare_updated_entry: Ok(Storable(entry)) or the first error met
prepare_updated_entry(db, uid, e) ==
    LET old == get_entry(db, uid)
        pos == try_from_lat_lng_deg(e.lat, e.lng)
        tags == prepare_tag_list(e.tags)
        homepage == parse_url_param(e.homepage)
        entry == DbEntry(uid, e.version, e.title, e.description, pos.v, e.email, homepage.v, tags,
                         old.v.license)
    IN  IF ~old.ok THEN old
        ELSE IF old.v.version + 1 # e.version THEN Error("InvalidVersion")
        ELSE IF ~pos.some THEN Error("InvalidPosition")
        ELSE IF ~check_and_count_owned_tags(tags).ok THEN check_and_count_owned_tags(tags)
        ELSE IF ~homepage.ok THEN homepage
        ELSE validate(entry)

\* for t in &entry.tags { db.create_tag_if_it_does_not_exist(..)?; }
RECURSIVE create_tags(_, _)
create_tags(tags, ts) ==
    IF ts = <<>> THEN tags
    ELSE create_tags(create_tag_if_it_does_not_exist(tags, Head(ts)), Tail(ts))

\* what a request thread holds: its position, the arguments of the request,
\* the entry get_entry returned, the Storable and the two results
UpdateRequest(at, uid, e, old, storable, prepared, stored) ==
    [pc |-> at, uid |-> uid, e |-> e, old |-> old, storable |-> storable,
     prepared |-> prepared, stored |-> stored]
NoUpdate == UpdateRequest("idle", "", UpdateEntry(0, "", "", <<0, 1>>, <<0, 1>>, "", "", <<>>),
                          NoEntry, NoEntry, "none", "none")

\* the requests: well-formed ones, and for every version one with each fault
UpdateUids == {"u", "x"}
UpdateTags == {<<>>, <<"vegan">>, <<" bio", "bio", " ">>}
UpdateInputs ==
    {UpdateEntry(v, title, "baz", <<0, 1>>, <<0, 1>>, "", "", tags) :
        v \in 0..MaxVersion, title \in {"foo", "new"}, tags \in UpdateTags}
    \cup {UpdateEntry(v, "new", "baz", <<91, 1>>, <<0, 1>>, "", "", <<"vegan">>) : v \in 0..MaxVersion}
    \cup {UpdateEntry(v, "new", "baz", <<0, 1>>, <<0, 1>>, "", "", <<"owned">>) : v \in 0..MaxVersion}
    \cup {UpdateEntry(v, "new", "baz", <<0, 1>>, <<0, 1>>, "", "://", <<>>) : v \in 0..MaxVersion}
    \cup {UpdateEntry(v, "new", "baz", <<0, 1>>, <<0, 1>>, "a@b.c", "img2", <<>>) : v \in 0..MaxVersion}
    \cup {UpdateEntry(v, "new", "baz", <<0, 1>>, <<0, 1>>, "a@b", "", <<>>) : v \in 0..MaxVersion}

\* the store the requests meet: entry u at version 0 or 1, another entry w
InitStore ==
    /\ InitIndex
    /\ InitAvg
    /\ InitWeb
    /\ InitPure
    /\ InitPool
    /\ \E v \in 0..1 :
          db_entries =
              <<DbEntry("u", v, "foo", "bar", MapPoint(TRUE, <<0, 1>>, <<0, 1>>), "", "",
                        <<"bio", "fair">>, "CC0-1.0"),
                DbEntry("w", 1, "other", "bar", MapPoint(TRUE, <<1, 1>>, <<1, 1>>), "", "",
                        <<"fair">>, "ODbL-1.0")>>
    /\ db_tags = <<"bio", "fair">>
    /\ db_initial = db_entries
    /\ upd = [t \in Threads |-> NoUpdate]

\* a request calls prepare_updated_entry, which reads the store
UpdatePrepare_CreatesTags(t) ==
    /\ upd[t].pc = "idle"
    /\ \E uid \in UpdateUids, e \in UpdateInputs :
          LET r == prepare_updated_entry(db_entries, uid, e)
          IN  /\ upd' = [upd EXCEPT ![t] =
                    UpdateRequest(IF r.ok THEN "prepared" ELSE "done", uid, e,
                                  IF get_entry(db_entries, uid).ok
                                  THEN get_entry(db_entries, uid).v ELSE NoEntry,
                                  IF r.ok THEN r.v ELSE NoEntry,
                                  IF r.ok THEN "Ok" ELSE r.v, "none")]
              /\ db_tags' = create_tags(db_tags, prepare_tag_list(e.tags))
    /\ UNCHANGED <<ivars, evars, avars, wvars, pvars, hvars, db_entries, db_initial>>

UpdatePrepare(t) ==
    /\ upd[t].pc = "idle"
    /\ \E uid \in UpdateUids, e \in UpdateInputs :
          LET r == prepare_updated_entry(db_entries, uid, e)
          IN  upd' = [upd EXCEPT ![t] =
                    UpdateRequest(IF r.ok THEN "prepared" ELSE "done", uid, e,
                                  IF get_entry(db_entries, uid).ok
                                  THEN get_entry(db_entries, uid).v ELSE NoEntry,
                                  IF r.ok THEN r.v ELSE NoEntry,
                                  IF r.ok THEN "Ok" ELSE r.v, "none")]
    /\ UNCHANGED <<ivars, evars, avars, wvars, pvars, hvars, db_entries, db_tags, db_initial>>

\* store_updated_entry: the tags of the entry are created, then the entry is
\* written; the write may fail in the database
StoreOutcomes == {"Ok", "Err"}
store_updated_entry(t, outcome) ==
    LET entry == upd[t].storable
        written == update_entry(db_entries, entry)
    IN  /\ db_tags' = create_tags(db_tags, entry.tags)
        /\ IF outcome = "Ok" /\ written.ok
           THEN /\ db_entries' = written.v
                /\ upd' = [upd EXCEPT ![t].pc = "done", ![t].stored = "Ok"]
           ELSE /\ db_entries' = db_entries
                /\ upd' = [upd EXCEPT ![t].pc = "done",
                                       ![t].stored = IF written.ok THEN "Err" ELSE written.v]

UpdateStore(t) ==
    /\ upd[t].pc = "prepared"
    /\ \E outcome \in StoreOutcomes : store_updated_entry(t, outcome)
    /\ UNCHANGED <<ivars, evars, avars, wvars, pvars, hvars, db_initial>>

UpdateNext == \E t \in Threads : UpdatePrepare(t) \/ UpdateStore(t)

SpecUpdate == InitStore /\ [][UpdateNext]_vars

(***************************************************************************)
(* Properties of the update use case                                       *)
(***************************************************************************)
PrepareReturned(t) == upd[t].pc = "idle" /\ upd'[t].pc # "idle"
StoreReturned(t) == upd[t].pc = "prepared" /\ upd'[t].pc = "done"
Exists(db, uid) == \E i \in 1..Len(db) : db[i].uid = uid
StoredAs(db, uid) == get_entry(db, uid).v
CountUid(db, uid) == Cardinality({i \in 1..Len(db) : db[i].uid = uid})
TagSet(tags) == {tags[i] : i \in 1..Len(tags)}
IsPrefix(a, b) == Len(a) <= Len(b) /\ \A i \in 1..Len(a) : a[i] = b[i]

\* C21: when the entry exists, prepare_updated_entry returns
\* Repo(InvalidVersion) exactly when the submitted version is not the stored
\* version + 1, whatever else is wrong with the submission (position, tags,
\* URL, e-mail)
C21_InvalidVersionFirst ==
    [][\A t \in Threads :
          (PrepareReturned(t) /\ Exists(db_entries, upd'[t].uid)) =>
              ((upd'[t].prepared = "InvalidVersion")
                  <=> (upd'[t].e.version # StoredAs(db_entries, upd'[t].uid).version + 1))]_vars

\* a submission with a wrong version and an invalid position got InvalidVersion
C21_Witness ==
    \E t \in Threads :
        /\ upd[t].prepared = "InvalidVersion"
        /\ ~try_from_lat_lng_deg(upd[t].e.lat, upd[t].e.lng).some
        /\ upd[t].old # NoEntry

\* C22: a call of prepare_updated_entry, whether it returns Ok or any of its
\* errors, leaves the stored entries and the stored tags as they were
C22_PrepareNeverWrites ==
    [][\A t \in Threads : PrepareReturned(t) => (db_entries' = db_entries /\ db_tags' = db_tags)]_vars

\* one request failed for an unknown uid, the other for a tag it may not
\* use, a tag the store does not hold
C22_Witness ==
    \E t1, t2 \in Threads :
        /\ upd[t1].prepared = "NotFound"
        /\ upd[t2].prepared = "OwnedTag"
        /\ "owned" \notin TagSet(db_tags)

C24_NoLostUpdate ==
    (\A t \in Threads : upd[t].pc = "done" /\ upd[t].uid = "u") =>
        StoredAs(db_entries, "u").version
            = StoredAs(db_initial, "u").version
              + Cardinality({t \in Threads : upd[t].stored = "Ok"})

(***************************************************************************)
(* Properties of concurrent post_rating requests                           *)
(***************************************************************************)
Quiescent == started /\ \A t \in Threads : wpc[t] = "idle"
RatingsOf(e) == SelectSeq(db_ratings, LAMBDA r : r.entry_id = e)

\* C25: once every post_rating request has returned, the ENTRY_RATINGS value
\* of an entry is avg_rating of the ratings stored for it (stated for a
\* database that holds ratings of that entry only, so that the value does not
\* depend on ratings of other entries)
C25_CacheNeverStale ==
    \A e \in WebEntries :
        (Quiescent /\ RatingsOf(e) = db_ratings) =>
            entry_ratings[e] = avg_rating(e, RatingsOf(e))

(***************************************************************************)
(* The web server's request handlers get_search and post_rating, as far as *)
(* they take and release the ENTRY_RATINGS mutex and the connections of    *)
(* the DbPool.  No timeout is defined: lock() and db.get() block until the *)
(* mutex is free and a connection is idle                                  *)
(***************************************************************************)
At(t, at) == hpc' = [hpc EXCEPT ![t] = at]

\* a request arrives and its handler starts: get_search with the lock,
\* post_rating with a connection
Request(t) ==
    /\ hpc[t] = "idle"
    /\ \E first \in {"search_lock", "rate_get"} : At(t, first)
    /\ UNCHANGED <<ivars, evars, avars, wvars, pvars, uvars, ratings_lock, pool>>

\* ENTRY_RATINGS.lock(); a poisoned mutex is taken all the same
ENTRY_RATINGS_lock(t, from, to) ==
    /\ hpc[t] = from
    /\ ratings_lock = NoThread
    /\ ratings_lock' = t
    /\ At(t, to)
    /\ UNCHANGED <<ivars, evars, avars, wvars, pvars, uvars, pool>>

\* db.get(): an idle connection is taken from the pool
db_get(t, from, to) ==
    /\ hpc[t] = from
    /\ pool > 0
    /\ pool' = pool - 1
    /\ At(t, to)
    /\ UNCHANGED <<ivars, evars, avars, wvars, pvars, uvars, ratings_lock>>

\* get_search: let avg_ratings = match ENTRY_RATINGS.lock() { .. }
get_search_lock(t) == ENTRY_RATINGS_lock(t, "search_lock", "search_get")

\* get_search: db.get()? for usecase::search, while avg_ratings is held
get_search_get(t) == db_get(t, "search_get", "search")

\* get_search: usecase::search returns, the connection goes back to the pool
\* at the end of the statement and the guard is dropped at the end of the
\* function
get_search_return(t) ==
    /\ hpc[t] = "search"
    /\ pool' = pool + 1
    /\ ratings_lock' = NoThread
    /\ At(t, "idle")
    /\ UNCHANGED <<ivars, evars, avars, wvars, pvars, uvars>>

\* post_rating: db.get()? for usecase::rate_entry
post_rating_get(t) == db_get(t, "rate_get", "rate_entry")

\* post_rating: usecase::rate_entry(..)? returns and its connection goes back
\* to the pool; on Err the handler returns
post_rating_rate_entry(t) ==
    /\ hpc[t] = "rate_entry"
    /\ pool' = pool + 1
    /\ \E next \in {"calculate_get", "idle"} : At(t, next)
    /\ UNCHANGED <<ivars, evars, avars, wvars, pvars, uvars, ratings_lock>>

\* post_rating: db.get()? for calculate_rating_for_entry; the connection is
\* held until the call has returned
calculate_rating_for_entry_get(t) == db_get(t, "calculate_get", "calculate_lock")

\* calculate_rating_for_entry: let mut avg_ratings = match ENTRY_RATINGS.lock() { .. }
calculate_rating_for_entry_lock(t) == ENTRY_RATINGS_lock(t, "calculate_lock", "calculate_insert")

\* calculate_rating_for_entry inserts and returns: the guard is dropped, then
\* the connection goes back to the pool
calculate_rating_for_entry_return(t) ==
    /\ hpc[t] = "calculate_insert"
    /\ ratings_lock' = NoThread
    /\ pool' = pool + 1
    /\ At(t, "idle")
    /\ UNCHANGED <<ivars, evars, avars, wvars, pvars, uvars>>

\* a step of a request under way
Handle(t) ==
    \/ get_search_lock(t)
    \/ get_search_get(t)
    \/ get_search_return(t)
    \/ post_rating_get(t)
    \/ post_rating_rate_entry(t)
    \/ calculate_rating_for_entry_get(t)
    \/ calculate_rating_for_entry_lock(t)
    \/ calculate_rating_for_entry_return(t)

PoolNext == \E t \in Handlers : Request(t) \/ Handle(t)

SpecPool == Init /\ [][PoolNext]_vars

(***************************************************************************)
(* Properties of the request handlers                                      *)
(***************************************************************************)
Busy == {t \in Handlers : hpc[t] # "idle"}

Acquire(t) == Lock(t) /\ UNCHANGED <<avars, wvars, pvars, uvars, hvars>>
Operate(t) ==
    /\ \/ SearchEngine_add_or_update_entry(t)
       \/ Panic(t)
       \/ SearchEngine_remove_entry_by_id(t)
       \/ SearchEngine_flush(t)
       \/ SearchEngine_query_entries(t)
    /\ UNCHANGED <<avars, wvars, pvars, uvars, hvars>>

Enter(t) == CallWithin(t, MaxWaiting) /\ UNCHANGED <<avars, wvars, pvars, uvars, hvars>>

FairNext == \E t \in Threads : Enter(t) \/ Acquire(t) \/ Operate(t)

SpecEngineFair ==
    /\ Init
    /\ [][FairNext]_vars
    /\ \A t \in Threads : WF_vars(Operate(t)) /\ SF_vars(Acquire(t))

CaseIds == {"shop", "Shop"}
\* two entries that differ in every indexed field
CaseEntries ==
    {Entry("shop", <<0, 1>>, <<0, 1>>, <<"Cafe">>, <<"Shop">>, <<"Bio">>),
     Entry("Shop", <<1, 2>>, <<-1, 2>>, <<"Bio">>, <<"Cafe">>, <<>>)}

CaseAddOrUpdate ==
    \E e \in CaseEntries, a \in AvgInputs :
        add_or_update_entry(e, a) /\ UNCHANGED <<evars, avars, wvars, pvars, uvars, hvars>>

CaseRemove ==
    \E id \in CaseIds : remove_entry_by_id(id) /\ UNCHANGED <<evars, avars, wvars, pvars, uvars, hvars>>

CaseNext == CaseAddOrUpdate \/ CaseRemove \/ IndexFlush

SpecCase == Init /\ [][CaseNext]_vars

\* C28: after a flush that returned Ok, an identifier that none of the applied
\* calls named exactly is visible iff it was visible before, with the same
\* document (coordinates, title, categories, tags and rating), whatever was
\* applied to an identifier that differs from it in case only
C28_OtherIdsUntouched ==
    FlushedOk =>
        \A id \in CaseIds :
            NoOpOn(applied, id) =>
                /\ id \in VisibleIds(searcher) <=> id \in VisibleIds(before)
                /\ CountId(searcher, id) = CountId(before, id)
                /\ id \in VisibleIds(before) => DocOf(searcher, id) = DocOf(before, id)

\* "Shop" is upserted anew and then removed while "shop" is visible and untouched
C28_Witness ==
    /\ FlushedOk
    /\ "shop" \in VisibleIds(before)
    /\ "Shop" \in VisibleIds(before)
    /\ NoOpOn(applied, "shop")
    /\ NumAdds(applied, "Shop") >= 1
    /\ LastIsDelete(applied, "Shop")
    /\ "shop" \in VisibleIds(searcher)
    /\ "Shop" \notin VisibleIds(searcher)

(***************************************************************************)
(* Properties of the quantization order                                    *)
(***************************************************************************)
\* the f64 values of [min, val] the call could have been made with instead
Below(val, min) == {v \in F64Grid : RLe(min, v) /\ RLe(v, val)}

====
